---- MODULE Spec2Model ----
(***************************************************************************)
(* Model of the ADS1115 strain-gauge poller (src/code.py): a sequential    *)
(* script that validates a gain setting, builds the 16-bit configuration   *)
(* word, writes it over I2C under the bus lock and then loops forever      *)
(* reading the conversion register and converting it to a pressure.        *)
(*                                                                         *)
(* Floats are modelled as exact rationals [num, den] (den > 0); the        *)
(* "{:.Nf}" formatting is modelled as rounding to N decimals.              *)
(***************************************************************************)
EXTENDS Integers, Sequences, FiniteSets, TLC

VARIABLES pc, gain_setting, pga_bits, fs_voltage, LSB,
          config_word, config_high, config_low,
          i2c, locked, devices, result, raw_value, psig,
          printed, error, log, cycles

vars == <<pc, gain_setting, pga_bits, fs_voltage, LSB,
          config_word, config_high, config_low,
          i2c, locked, devices, result, raw_value, psig,
          printed, error, log, cycles>>

(* ------------------------------ bounds -------------------------------- *)
\* Number of read cycles the model lets the endless loop start.
MaxCycles == 3

(* ----------------------------- constants ------------------------------ *)
ADS1115_ADDRESS == 72
CONVERSION_REG == 0
CONFIG_REG == 1
dr_bits == 4

\* Addresses that may answer the bus scan (0x48 and a second ADS1115 slot).
BusAddresses == {72, 73}

\* Values a bytearray element can hold.
Byte == 0..255

\* Byte pairs the device returns in the full program model: the boundary
\* samples of the 16-bit range plus one sample above 100 mV at every gain.
SampleResults == {<<0, 1>>, <<255, 255>>, <<128, 0>>, <<127, 255>>, <<50, 0>>}

\* The configured gain string: the six table keys and an unknown one.
GainChoices == {"2/3", "1", "2", "4", "8", "16", "3"}

(* ------------------------- exact rationals ---------------------------- *)
Abs(n) == IF n < 0 THEN -n ELSE n

RECURSIVE Gcd(_, _)
Gcd(a, b) == IF b = 0 THEN a ELSE Gcd(b, a % b)

\* The rational n/d (d > 0) in lowest terms.
Rat(n, d) ==
    LET g == Gcd(Abs(n), d)
    IN [num |-> n \div g, den |-> d \div g]

\* r / k for a positive integer k
RatDivInt(r, k) ==
    LET g == Gcd(Abs(r.num), k)
    IN Rat(r.num \div g, r.den * (k \div g))

\* k * r for an integer k
IntMulRat(k, r) ==
    LET g == Gcd(Abs(k), r.den)
    IN Rat((k \div g) * r.num, r.den \div g)

\* "{:.Nf}".format(r) with scale = 10^N: sign and the rounded magnitude in
\* units of 1/scale (round half to even, as Python does).
FormatFixed(r, scale) ==
    LET n == Abs(r.num)
        q == n \div r.den
        rem == n % r.den
        f == (rem * scale) \div r.den
        frem == (rem * scale) % r.den
        up == \/ 2 * frem > r.den
              \/ (2 * frem = r.den /\ (q * scale + f) % 2 = 1)
    IN [neg |-> r.num < 0, mag |-> q * scale + f + (IF up THEN 1 ELSE 0)]

(* --------------------------- bit arithmetic --------------------------- *)
RECURSIVE BitOr(_, _)
BitOr(a, b) ==
    IF a = 0 THEN b
    ELSE IF b = 0 THEN a
    ELSE (IF a % 2 = 1 \/ b % 2 = 1 THEN 1 ELSE 0) + 2 * BitOr(a \div 2, b \div 2)

RECURSIVE BitAnd(_, _)
BitAnd(a, b) ==
    IF a = 0 \/ b = 0 THEN 0
    ELSE (IF a % 2 = 1 /\ b % 2 = 1 THEN 1 ELSE 0) + 2 * BitAnd(a \div 2, b \div 2)

RECURSIVE Pow2(_)
Pow2(n) == IF n = 0 THEN 1 ELSE 2 * Pow2(n - 1)

ShiftLeft(x, n) == x * Pow2(n)
ShiftRight(x, n) == x \div Pow2(n)

(* ------------------------- configuration data ------------------------- *)
\* Variant: the table also accepts the string "3".
gain_map_AcceptsThree ==
    [g \in {"2/3", "1", "2", "4", "8", "16", "3"} |->
        CASE g = "2/3" -> [pga_bits |-> 0, fs_voltage |-> Rat(6144, 1000)]
          [] g = "1"   -> [pga_bits |-> 1, fs_voltage |-> Rat(4096, 1000)]
          [] g = "2"   -> [pga_bits |-> 2, fs_voltage |-> Rat(2048, 1000)]
          [] g = "4"   -> [pga_bits |-> 3, fs_voltage |-> Rat(1024, 1000)]
          [] g = "8"   -> [pga_bits |-> 4, fs_voltage |-> Rat(512, 1000)]
          [] g = "16"  -> [pga_bits |-> 5, fs_voltage |-> Rat(256, 1000)]
          [] g = "3"   -> [pga_bits |-> 2, fs_voltage |-> Rat(2048, 1000)]]

\* fs_voltage is kept as an exact rational number of volts.
gain_map ==
    [g \in {"2/3", "1", "2", "4", "8", "16"} |->
        CASE g = "2/3" -> [pga_bits |-> 0, fs_voltage |-> Rat(6144, 1000)]
          [] g = "1"   -> [pga_bits |-> 1, fs_voltage |-> Rat(4096, 1000)]
          [] g = "2"   -> [pga_bits |-> 2, fs_voltage |-> Rat(2048, 1000)]
          [] g = "4"   -> [pga_bits |-> 3, fs_voltage |-> Rat(1024, 1000)]
          [] g = "8"   -> [pga_bits |-> 4, fs_voltage |-> Rat(512, 1000)]
          [] g = "16"  -> [pga_bits |-> 5, fs_voltage |-> Rat(256, 1000)]]

\* Variant: the data-rate field shifted by 4 instead of 5.
ConfigFields_DRShift4(pga) ==
    << [name |-> "OS",       value |-> 1,       shift |-> 15, width |-> 1],
       [name |-> "MUX",      value |-> 0,       shift |-> 12, width |-> 3],
       [name |-> "PGA",      value |-> pga,     shift |-> 9,  width |-> 3],
       [name |-> "MODE",     value |-> 0,       shift |-> 8,  width |-> 1],
       [name |-> "DR",       value |-> dr_bits, shift |-> 4,  width |-> 3],
       [name |-> "COMP_QUE", value |-> 3,       shift |-> 0,  width |-> 2] >>

\* Variant: the gain field shifted by 8 instead of 9.
ConfigFields_PGAShift8(pga) ==
    << [name |-> "OS",       value |-> 1,       shift |-> 15, width |-> 1],
       [name |-> "MUX",      value |-> 0,       shift |-> 12, width |-> 3],
       [name |-> "PGA",      value |-> pga,     shift |-> 8,  width |-> 3],
       [name |-> "MODE",     value |-> 0,       shift |-> 8,  width |-> 1],
       [name |-> "DR",       value |-> dr_bits, shift |-> 5,  width |-> 3],
       [name |-> "COMP_QUE", value |-> 3,       shift |-> 0,  width |-> 2] >>

\* The six fields OR-ed into the configuration word, most significant
\* first: name, value, shift and width in bits.
ConfigFields(pga) ==
    << [name |-> "OS",       value |-> 1,       shift |-> 15, width |-> 1],
       [name |-> "MUX",      value |-> 0,       shift |-> 12, width |-> 3],
       [name |-> "PGA",      value |-> pga,     shift |-> 9,  width |-> 3],
       [name |-> "MODE",     value |-> 0,       shift |-> 8,  width |-> 1],
       [name |-> "DR",       value |-> dr_bits, shift |-> 5,  width |-> 3],
       [name |-> "COMP_QUE", value |-> 3,       shift |-> 0,  width |-> 2] >>

RECURSIVE OrFields(_, _)
OrFields(fs, i) ==
    IF i > Len(fs) THEN 0
    ELSE BitOr(ShiftLeft(fs[i].value, fs[i].shift), OrFields(fs, i + 1))

ConfigWord(pga) == OrFields(ConfigFields(pga), 1)
ConfigHigh(w) == BitAnd(ShiftRight(w, 8), 255)
ConfigLow(w) == BitAnd(w, 255)

(* -------------------------- sample conversion ------------------------- *)
\* Variant: the sign bit is never folded back (unsigned result).
RawValue_Unsigned(res) == BitOr(ShiftLeft(res[1], 8), res[2])

RawValue(res) ==
    LET u == BitOr(ShiftLeft(res[1], 8), res[2])
    IN IF BitAnd(u, 32768) # 0 THEN u - ShiftLeft(1, 16) ELSE u

\* measured_voltage = raw_value * LSB; voltage_mV = measured_voltage * 1000
MeasuredVoltage(raw, lsb) == IntMulRat(raw, lsb)
VoltageMV(raw, lsb) == IntMulRat(1000, MeasuredVoltage(raw, lsb))
\* Variant: the commented-out clamping to [0, 100] is active.
Psig_Clamped(raw, lsb) ==
    LET v == VoltageMV(raw, lsb)
    IN IF v.num < 0 THEN Rat(0, 1)
       ELSE IF v.num > 100 * v.den THEN Rat(100, 1)
       ELSE v

Psig(raw, lsb) == VoltageMV(raw, lsb)

(* ------------------------------- bus log ------------------------------ *)
Entry(op, data) == [op |-> op, data |-> data, held |-> locked]

Unlocked(lg) == Append(lg, [op |-> "unlock", data |-> <<>>, held |-> locked])

(* -------------------------------- Init -------------------------------- *)
Init ==
    /\ pc = "gain_check"
    /\ gain_setting \in GainChoices
    /\ pga_bits = 0
    /\ fs_voltage = Rat(0, 1)
    /\ LSB = Rat(0, 1)
    /\ config_word = 0
    /\ config_high = 0
    /\ config_low = 0
    /\ i2c = "none"
    /\ locked = FALSE
    /\ devices = {}
    /\ result = <<0, 0>>
    /\ raw_value = 0
    /\ psig = Rat(0, 1)
    /\ printed = <<"none">>
    /\ error = "none"
    /\ log = <<>>
    /\ cycles = 0

(* ------------------------------- startup ------------------------------ *)
\* if gain_setting not in gain_map: raise ValueError
CheckGain ==
    /\ pc = "gain_check"
    /\ IF gain_setting \notin DOMAIN gain_map
       THEN /\ error' = "ValueError"
            /\ pc' = "aborted"
       ELSE /\ pc' = "configure"
            /\ UNCHANGED error
    /\ UNCHANGED <<gain_setting, pga_bits, fs_voltage, LSB, config_word,
                   config_high, config_low, i2c, locked, devices, result,
                   raw_value, psig, printed, log, cycles>>

\* pga_bits, fs_voltage, LSB, the banner, config_word and its two bytes
Configure ==
    /\ pc = "configure"
    /\ pga_bits' = gain_map[gain_setting].pga_bits
    /\ fs_voltage' = gain_map[gain_setting].fs_voltage
    /\ LSB' = RatDivInt(fs_voltage', 32767)
    /\ printed' = <<"banner", gain_setting, FormatFixed(fs_voltage', 1000)>>
    /\ config_word' = ConfigWord(pga_bits')
    /\ config_high' = ConfigHigh(config_word')
    /\ config_low' = ConfigLow(config_word')
    /\ pc' = "i2c_init"
    /\ UNCHANGED <<gain_setting, i2c, locked, devices, result, raw_value,
                   psig, error, log, cycles>>

\* i2c = busio.I2C(board.IO9, board.IO8, frequency=100000)
I2CInit ==
    /\ pc = "i2c_init"
    /\ i2c' = "open"
    /\ pc' = "startup_lock"
    /\ UNCHANGED <<gain_setting, pga_bits, fs_voltage, LSB, config_word,
                   config_high, config_low, locked, devices, result,
                   raw_value, psig, printed, error, log, cycles>>

\* Variant: the startup transaction proceeds without taking the lock.
StartupTryLock_NoAcquire ==
    /\ pc = "startup_lock"
    /\ pc' = "scan"
    /\ UNCHANGED <<gain_setting, pga_bits, fs_voltage, LSB, config_word,
                   config_high, config_low, i2c, locked, devices, result,
                   raw_value, psig, printed, error, log, cycles>>

\* while not i2c.try_lock(): pass -- try_lock takes the lock and returns
\* True only when it is free; otherwise the loop spins in place.
StartupTryLock ==
    /\ pc = "startup_lock"
    /\ IF ~locked
       THEN /\ locked' = TRUE
            /\ log' = Append(log, [op |-> "try_lock", data |-> <<>>, held |-> TRUE])
            /\ pc' = "scan"
       ELSE UNCHANGED <<locked, log, pc>>
    /\ UNCHANGED <<gain_setting, pga_bits, fs_voltage, LSB, config_word,
                   config_high, config_low, i2c, devices, result,
                   raw_value, psig, printed, error, cycles>>

\* devices = i2c.scan(); print the addresses found
Scan ==
    /\ pc = "scan"
    /\ \E found \in SUBSET BusAddresses :
          /\ devices' = found
          /\ printed' = <<"devices", found>>
    /\ log' = Append(log, Entry("scan", <<>>))
    /\ pc' = "check_device"
    /\ UNCHANGED <<gain_setting, pga_bits, fs_voltage, LSB, config_word,
                   config_high, config_low, i2c, locked, result,
                   raw_value, psig, error, cycles>>

\* Variant: the device-absent path raises without releasing the lock.
CheckDevice_NoUnlock ==
    /\ pc = "check_device"
    /\ IF ADS1115_ADDRESS \notin devices
       THEN /\ printed' = <<"not detected">>
            /\ error' = "RuntimeError"
            /\ pc' = "aborted"
       ELSE /\ pc' = "write_config"
            /\ UNCHANGED <<printed, error>>
    /\ UNCHANGED <<gain_setting, pga_bits, fs_voltage, LSB, config_word,
                   config_high, config_low, i2c, locked, devices, result,
                   raw_value, psig, log, cycles>>

\* if ADS1115_ADDRESS not in devices: print, unlock, raise RuntimeError
CheckDevice ==
    /\ pc = "check_device"
    /\ IF ADS1115_ADDRESS \notin devices
       THEN /\ printed' = <<"not detected">>
            /\ locked' = FALSE
            /\ log' = Unlocked(log)
            /\ error' = "RuntimeError"
            /\ pc' = "aborted"
       ELSE /\ pc' = "write_config"
            /\ UNCHANGED <<printed, locked, log, error>>
    /\ UNCHANGED <<gain_setting, pga_bits, fs_voltage, LSB, config_word,
                   config_high, config_low, i2c, devices, result,
                   raw_value, psig, cycles>>

\* Variant: a failed configuration write is reported and the script goes
\* on to the read loop instead of re-raising.
WriteConfig_Swallowed ==
    /\ pc = "write_config"
    /\ \E ok \in BOOLEAN :
          IF ok
          THEN /\ log' = Append(log, Entry("writeto", <<CONFIG_REG, config_high, config_low>>))
               /\ printed' = <<"written", CONFIG_REG, config_high, config_low>>
               /\ pc' = "settle"
               /\ UNCHANGED <<locked, error>>
          ELSE /\ log' = Unlocked(Append(log, Entry("writeto", <<CONFIG_REG, config_high, config_low>>)))
               /\ printed' = <<"config error">>
               /\ locked' = FALSE
               /\ error' = "OSError"
               /\ pc' = "loop_lock"
    /\ UNCHANGED <<gain_setting, pga_bits, fs_voltage, LSB, config_word,
                   config_high, config_low, i2c, devices, result,
                   raw_value, psig, cycles>>

\* try: writeto(ADS1115_ADDRESS, [CONFIG_REG, high, low]); print
\* except OSError: print, unlock, raise
WriteConfig ==
    /\ pc = "write_config"
    /\ \E ok \in BOOLEAN :
          IF ok
          THEN /\ log' = Append(log, Entry("writeto", <<CONFIG_REG, config_high, config_low>>))
               /\ printed' = <<"written", CONFIG_REG, config_high, config_low>>
               /\ pc' = "settle"
               /\ UNCHANGED <<locked, error>>
          ELSE /\ log' = Unlocked(Append(log, Entry("writeto", <<CONFIG_REG, config_high, config_low>>)))
               /\ printed' = <<"config error">>
               /\ locked' = FALSE
               /\ error' = "OSError"
               /\ pc' = "aborted"
    /\ UNCHANGED <<gain_setting, pga_bits, fs_voltage, LSB, config_word,
                   config_high, config_low, i2c, devices, result,
                   raw_value, psig, cycles>>

\* time.sleep(0.2) with the lock still held
Settle ==
    /\ pc = "settle"
    /\ pc' = "startup_unlock"
    /\ UNCHANGED <<gain_setting, pga_bits, fs_voltage, LSB, config_word,
                   config_high, config_low, i2c, locked, devices, result,
                   raw_value, psig, printed, error, log, cycles>>

\* i2c.unlock() after the settle delay
StartupUnlock ==
    /\ pc = "startup_unlock"
    /\ locked' = FALSE
    /\ log' = Unlocked(log)
    /\ pc' = "loop_lock"
    /\ UNCHANGED <<gain_setting, pga_bits, fs_voltage, LSB, config_word,
                   config_high, config_low, i2c, devices, result,
                   raw_value, psig, printed, error, cycles>>

(* ------------------------------ main loop ----------------------------- *)
\* while not i2c.try_lock(): pass -- at the top of each read cycle
LoopTryLock ==
    /\ pc = "loop_lock"
    /\ cycles < MaxCycles
    /\ IF ~locked
       THEN /\ locked' = TRUE
            /\ log' = Append(log, [op |-> "try_lock", data |-> <<>>, held |-> TRUE])
            /\ cycles' = cycles + 1
            /\ pc' = "select_register"
       ELSE UNCHANGED <<locked, log, cycles, pc>>
    /\ UNCHANGED <<gain_setting, pga_bits, fs_voltage, LSB, config_word,
                   config_high, config_low, i2c, devices, result,
                   raw_value, psig, printed, error>>

\* i2c.writeto(ADS1115_ADDRESS, bytes([CONVERSION_REG])); an OSError
\* jumps to the except clause
SelectRegister ==
    /\ pc = "select_register"
    /\ log' = Append(log, Entry("writeto", <<CONVERSION_REG>>))
    /\ \E ok \in BOOLEAN :
          pc' = IF ok THEN "read_result" ELSE "read_error"
    /\ UNCHANGED <<gain_setting, pga_bits, fs_voltage, LSB, config_word,
                   config_high, config_low, i2c, locked, devices, result,
                   raw_value, psig, printed, error, cycles>>

\* result = bytearray(2); i2c.readfrom_into(ADS1115_ADDRESS, result)
ReadResult(samples) ==
    /\ pc = "read_result"
    /\ log' = Append(log, Entry("readfrom_into", <<>>))
    /\ \/ \E bytes \in samples :
             /\ result' = bytes
             /\ pc' = "loop_unlock"
       \/ /\ result' = <<0, 0>>
          /\ pc' = "read_error"
    /\ UNCHANGED <<gain_setting, pga_bits, fs_voltage, LSB, config_word,
                   config_high, config_low, i2c, locked, devices,
                   raw_value, psig, printed, error, cycles>>

\* i2c.unlock() on the success path of the try block
LoopUnlock ==
    /\ pc = "loop_unlock"
    /\ locked' = FALSE
    /\ log' = Unlocked(log)
    /\ pc' = "reconstruct"
    /\ UNCHANGED <<gain_setting, pga_bits, fs_voltage, LSB, config_word,
                   config_high, config_low, i2c, devices, result,
                   raw_value, psig, printed, error, cycles>>

\* except OSError as e: print("I2C error during read:", e)
HandleReadError ==
    /\ pc = "read_error"
    /\ printed' = <<"read error">>
    /\ pc' = "retry_wait"
    /\ UNCHANGED <<gain_setting, pga_bits, fs_voltage, LSB, config_word,
                   config_high, config_low, i2c, locked, devices, result,
                   raw_value, psig, error, log, cycles>>

\* time.sleep(1); continue
RetryWait ==
    /\ pc = "retry_wait"
    /\ pc' = "loop_lock"
    /\ UNCHANGED <<gain_setting, pga_bits, fs_voltage, LSB, config_word,
                   config_high, config_low, i2c, locked, devices, result,
                   raw_value, psig, printed, error, log, cycles>>

\* raw_value = (result[0] << 8) | result[1]; sign reconstruction
Reconstruct ==
    /\ pc = "reconstruct"
    /\ raw_value' = RawValue(result)
    /\ pc' = "convert"
    /\ UNCHANGED <<gain_setting, pga_bits, fs_voltage, LSB, config_word,
                   config_high, config_low, i2c, locked, devices, result,
                   psig, printed, error, log, cycles>>

\* measured_voltage, voltage_mV, psig (the clamping lines are comments)
Convert ==
    /\ pc = "convert"
    /\ psig' = Psig(raw_value, LSB)
    /\ pc' = "report"
    /\ UNCHANGED <<gain_setting, pga_bits, fs_voltage, LSB, config_word,
                   config_high, config_low, i2c, locked, devices, result,
                   raw_value, printed, error, log, cycles>>

\* print("Raw ADC:", raw_value, "Voltage: {:.3f} mV", "Pressure: {:.1f} psig")
Report ==
    /\ pc = "report"
    /\ printed' = <<"sample", raw_value,
                    FormatFixed(VoltageMV(raw_value, LSB), 1000),
                    FormatFixed(psig, 10)>>
    /\ pc' = "cycle_wait"
    /\ UNCHANGED <<gain_setting, pga_bits, fs_voltage, LSB, config_word,
                   config_high, config_low, i2c, locked, devices, result,
                   raw_value, psig, error, log, cycles>>

\* time.sleep(1) at the end of a cycle
CycleWait ==
    /\ pc = "cycle_wait"
    /\ pc' = "loop_lock"
    /\ UNCHANGED <<gain_setting, pga_bits, fs_voltage, LSB, config_word,
                   config_high, config_low, i2c, locked, devices, result,
                   raw_value, psig, printed, error, log, cycles>>

(* ---------------------------- specifications -------------------------- *)
Next ==
    \/ CheckGain
    \/ Configure
    \/ I2CInit
    \/ StartupTryLock
    \/ Scan
    \/ CheckDevice
    \/ WriteConfig
    \/ Settle
    \/ StartupUnlock
    \/ LoopTryLock
    \/ SelectRegister
    \/ ReadResult(SampleResults)
    \/ LoopUnlock
    \/ HandleReadError
    \/ RetryWait
    \/ Reconstruct
    \/ Convert
    \/ Report
    \/ CycleWait

Spec == Init /\ [][Next]_vars

(* ------------------- conversion over the full byte range -------------- *)
\* The bus log of a run whose startup and first read transaction succeed.
FirstReadLog(high, low) ==
    << [op |-> "try_lock", data |-> <<>>, held |-> TRUE],
       [op |-> "scan", data |-> <<>>, held |-> TRUE],
       [op |-> "writeto", data |-> <<CONFIG_REG, high, low>>, held |-> TRUE],
       [op |-> "unlock", data |-> <<>>, held |-> TRUE],
       [op |-> "try_lock", data |-> <<>>, held |-> TRUE],
       [op |-> "writeto", data |-> <<CONVERSION_REG>>, held |-> TRUE],
       [op |-> "readfrom_into", data |-> <<>>, held |-> TRUE],
       [op |-> "unlock", data |-> <<>>, held |-> TRUE] >>

\* The program right after the first successful read transaction, for every
\* valid gain setting and every byte pair the device can return.
InitConv ==
    /\ pc = "reconstruct"
    /\ gain_setting \in DOMAIN gain_map
    /\ pga_bits = gain_map[gain_setting].pga_bits
    /\ fs_voltage = gain_map[gain_setting].fs_voltage
    /\ LSB = RatDivInt(fs_voltage, 32767)
    /\ config_word = ConfigWord(pga_bits)
    /\ config_high = ConfigHigh(config_word)
    /\ config_low = ConfigLow(config_word)
    /\ i2c = "open"
    /\ locked = FALSE
    /\ devices = {ADS1115_ADDRESS}
    /\ result \in Byte \X Byte
    /\ raw_value = 0
    /\ psig = Rat(0, 1)
    /\ printed = <<"written", CONFIG_REG, config_high, config_low>>
    /\ error = "none"
    /\ log = FirstReadLog(config_high, config_low)
    /\ cycles = 1

NextConv ==
    \/ Reconstruct
    \/ Convert
    \/ Report

SpecConv == InitConv /\ [][NextConv]_vars

(* ============================== properties =========================== *)
IsConfigWrite(e) == e.op = "writeto" /\ Len(e.data) = 3 /\ e.data[1] = CONFIG_REG
IsPointerWrite(e) == e.op = "writeto" /\ e.data = <<CONVERSION_REG>>
IsRead(e) == e.op = "readfrom_into"
IsScan(e) == e.op = "scan"
IsBusOp(e) == e.op \in {"scan", "writeto", "readfrom_into"}
Count(P(_)) == Cardinality({i \in DOMAIN log : P(log[i])})

Configured == pc \notin {"gain_check", "configure"} /\ error # "ValueError"
ValidGainStrings == {"2/3", "1", "2", "4", "8", "16"}
InWait == pc \in {"cycle_wait", "retry_wait"}

\* C1 (as claimed): after a read failure has been reported and the fixed
\* delay has passed, the program attempts another read transaction: back at
\* the top of the loop its lock acquisition goes through, so the loop is
\* never stuck without issuing further bus reads (checked while the model
\* still lets another cycle start).
C1_RetryAfterReadFailure ==
    (pc = "loop_lock" /\ cycles < MaxCycles) => ENABLED <<LoopTryLock>>_vars

\* C2 (as claimed): the bus lock is never held during an inter-cycle wait
\* (after a report or after a read failure) nor once the process aborted.
C2_LockNeverHeldOutsideTransaction ==
    (InWait \/ pc = "aborted") => ~locked

\* C3 (as claimed): for gain "16" the configuration word is 0x8FE3, split
\* into high byte 0x8F and low byte 0xE3.
C3_Gain16WordIs8FE3 ==
    (Configured /\ gain_setting = "16") =>
        /\ config_word = 36835
        /\ config_high = 143
        /\ config_low = 227

\* C3 (amended): for gain "16" (pga_bits = 0b101, dr_bits = 0b100) the
\* configuration word is 0x8A83, split into high byte 0x8A and low byte 0x83,
\* and these are the bytes sent after the register pointer.
C3_Gain16WordIs8A83 ==
    (Configured /\ gain_setting = "16") =>
        /\ pga_bits = 5
        /\ config_word = 35459
        /\ config_high = 138
        /\ config_low = 131
        /\ \A i \in DOMAIN log :
              IsConfigWrite(log[i]) => log[i].data = <<1, 138, 131>>

C3_Witness ==
    /\ pc = "settle"
    /\ gain_setting = "16"
    /\ config_word = 35459
    /\ log[Len(log)].data = <<1, 138, 131>>

\* C4: after reconstruction the raw sample is the big-endian unsigned value
\* of the two bytes, minus 65536 exactly when bit 15 is set; it lies in
\* [-32768, 32767], is the 16-bit two's-complement reading of the byte pair
\* (so the pair is recovered from it), and the four boundary pairs give
\* -1, 1, -32768 and 32767.
C4_SignReconstruction ==
    pc \in {"convert", "report", "cycle_wait"} =>
        LET u == result[1] * 256 + result[2]
        IN /\ raw_value = (IF u >= 32768 THEN u - 65536 ELSE u)
           /\ raw_value \in -32768..32767
           /\ (raw_value + 65536) % 65536 = u
           /\ ((raw_value + 65536) % 65536) \div 256 = result[1]
           /\ ((raw_value + 65536) % 65536) % 256 = result[2]
           /\ (result = <<255, 255>> => raw_value = -1)
           /\ (result = <<0, 1>> => raw_value = 1)
           /\ (result = <<128, 0>> => raw_value = -32768)
           /\ (result = <<127, 255>> => raw_value = 32767)

C4_Witness ==
    /\ pc = "convert"
    /\ result = <<128, 0>>
    /\ raw_value = -32768

\* C5: with a gain string outside the six table keys the run ends with a
\* ValueError before any bus activity: no bus object, no lock, empty bus log.
C5_InvalidGainFailsBeforeBus ==
    /\ (gain_setting \notin ValidGainStrings /\ pc # "gain_check") =>
          /\ pc = "aborted"
          /\ error = "ValueError"
          /\ i2c = "none"
          /\ ~locked
          /\ log = <<>>
          /\ cycles = 0
    /\ (error = "ValueError" => gain_setting \notin ValidGainStrings)

C5_Witness ==
    /\ gain_setting = "3"
    /\ pc = "aborted"
    /\ error = "ValueError"

\* C6: an OSError from the configuration write ends the run: the lock has
\* been released (the release is the last bus-log entry, right after the one
\* and only configuration write), and no read cycle was ever started.
C6_ConfigWriteErrorIsFatal ==
    error = "OSError" =>
        /\ pc = "aborted"
        /\ ~locked
        /\ Len(log) >= 2
        /\ log[Len(log)].op = "unlock"
        /\ IsConfigWrite(log[Len(log) - 1])
        /\ Count(IsConfigWrite) = 1
        /\ Count(IsPointerWrite) = 0
        /\ Count(IsRead) = 0
        /\ cycles = 0

C6_Witness ==
    /\ error = "OSError"
    /\ pc = "aborted"
    /\ printed = <<"config error">>

\* C7: when 0x48 is missing from the scan result the run ends at startup
\* with a RuntimeError, the lock released, and no write or read on the bus.
C7_DeviceAbsentAborts ==
    /\ (Count(IsScan) > 0 /\ pc # "check_device" /\ ADS1115_ADDRESS \notin devices) =>
          /\ pc = "aborted"
          /\ error = "RuntimeError"
          /\ ~locked
          /\ log[Len(log)].op = "unlock"
          /\ Count(IsConfigWrite) = 0
          /\ Count(IsPointerWrite) = 0
          /\ Count(IsRead) = 0
    /\ (error = "RuntimeError" => ADS1115_ADDRESS \notin devices)

C7_Witness ==
    /\ error = "RuntimeError"
    /\ pc = "aborted"
    /\ devices = {73}

BitsOf(w, lo, width) == (w \div Pow2(lo)) % Pow2(width)
FieldBits(f) == f.shift .. (f.shift + f.width - 1)
FieldsAt(fs, bit) == {i \in DOMAIN fs : bit \in FieldBits(fs[i])}
RECURSIVE WidthSum(_, _)
WidthSum(fs, i) == IF i > Len(fs) THEN 0 ELSE fs[i].width + WidthSum(fs, i + 1)

FieldValuesAsStated ==
    /\ config_word \in 0..65535
    /\ BitsOf(config_word, 15, 1) = 1
    /\ BitsOf(config_word, 12, 3) = 0
    /\ BitsOf(config_word, 9, 3) = pga_bits
    /\ pga_bits = (CASE gain_setting = "2/3" -> 0 [] gain_setting = "1" -> 1
                      [] gain_setting = "2" -> 2 [] gain_setting = "4" -> 3
                      [] gain_setting = "8" -> 4 [] gain_setting = "16" -> 5)
    /\ BitsOf(config_word, 8, 1) = 0
    /\ BitsOf(config_word, 5, 3) = 4
    /\ BitsOf(config_word, 0, 2) = 3

\* C8 (as claimed): the word is 16 bits wide and every one of its 16 bit
\* positions belongs to exactly one of the six fields, which carry the
\* stated values.
C8_SixFieldsCoverAll16Bits ==
    Configured =>
        /\ FieldValuesAsStated
        /\ WidthSum(ConfigFields(pga_bits), 1) = 16
        /\ \A bit \in 0..15 :
              Cardinality(FieldsAt(ConfigFields(pga_bits), bit)) = 1

\* C8 (amended): the word is 16 bits wide; the six fields OS(1), MUX(3),
\* PGA(3), MODE(1), DR(3), COMP_QUE(2) occupy 13 of the 16 bit positions
\* (15, 14-12, 11-9, 8, 7-5, 1-0) without overlap and carry the stated
\* values; bits 4..2 belong to no field and are zero.
C8_SixFieldsCover13Bits ==
    Configured =>
        /\ FieldValuesAsStated
        /\ WidthSum(ConfigFields(pga_bits), 1) = 13
        /\ \A bit \in 0..15 :
              Cardinality(FieldsAt(ConfigFields(pga_bits), bit)) =
                  (IF bit \in 2..4 THEN 0 ELSE 1)
        /\ BitsOf(config_word, 2, 3) = 0
        /\ config_word = config_high * 256 + config_low

C8_Witness ==
    /\ pc = "i2c_init"
    /\ gain_setting = "4"
    /\ BitsOf(config_word, 9, 3) = 3

FullScaleMillivolts(g) ==
    CASE g = "2/3" -> 6144 [] g = "1" -> 4096 [] g = "2" -> 2048
      [] g = "4" -> 1024 [] g = "8" -> 512 [] g = "16" -> 256

\* C9: for every valid gain and every raw sample, LSB is full scale / 32767
\* and the pressure is raw * full-scale-millivolts / 32767, unclamped:
\* negative for a negative raw value, above 100 when the millivolt value is
\* above 100; the printed line carries that value to one decimal.
C9_PressureUnclamped ==
    pc \in {"report", "cycle_wait"} =>
        LET fs == FullScaleMillivolts(gain_setting)
        IN /\ raw_value \in -32768..32767
           /\ LSB = Rat(fs, 32767000)
           /\ LSB.num > 0
           /\ psig = Rat(raw_value * fs, 32767)
           /\ (raw_value < 0 => psig.num < 0)
           /\ (raw_value * fs > 100 * 32767 => psig.num > 100 * psig.den)
           /\ (pc = "cycle_wait" =>
                 /\ printed[1] = "sample"
                 /\ printed[2] = raw_value
                 /\ printed[4] = FormatFixed(psig, 10)
                 /\ (raw_value < 0 => printed[4].neg)
                 /\ (raw_value * fs >= 101 * 32767 => printed[4].mag > 1000))

C9_Witness ==
    /\ pc = "cycle_wait"
    /\ gain_setting = "1"
    /\ raw_value = 32767
    /\ psig = Rat(4096, 1)
    /\ printed[4] = [neg |-> FALSE, mag |-> 40960]

\* C10: every bus operation is logged with the lock held; the scan comes
\* before the configuration write, there is at most one configuration write
\* and it comes before every pointer write and read, and every 2-byte read
\* directly follows the pointer write [0x00] of its cycle.
C10_BusOpsLockedAndOrdered ==
    /\ \A i \in DOMAIN log : IsBusOp(log[i]) => log[i].held
    /\ Count(IsConfigWrite) <= 1
    /\ Count(IsScan) <= 1
    /\ \A i \in DOMAIN log :
          /\ IsConfigWrite(log[i]) =>
                /\ log[i].data = <<1, config_high, config_low>>
                /\ \E j \in 1..(i - 1) : IsScan(log[j])
          /\ (IsPointerWrite(log[i]) \/ IsRead(log[i])) =>
                \E j \in 1..(i - 1) : IsConfigWrite(log[j])
          /\ IsRead(log[i]) => (i > 1 /\ IsPointerWrite(log[i - 1]))
    /\ (cycles > 0 => Count(IsConfigWrite) = 1)

C10_Witness ==
    /\ pc = "loop_unlock"
    /\ cycles = 2
    /\ Count(IsRead) = 2
    /\ Count(IsConfigWrite) = 1

====
